---- MODULE Spec2Model ----
(***************************************************************************)
(* A model of main.py: the NFCController (reader monitor, tag acquisition) *)
(* and the batch loop of main().                                           *)
(*                                                                         *)
(* Time is counted in ticks of 100 ms, the polling interval of             *)
(* wait_for_new_tag.  The program never uses time.time() but in the two    *)
(* differences time.time() - start_time and                                *)
(* current_time - self.last_update_time, so the clock is kept as these     *)
(* differences (elapsed, age), which every sleep advances together.        *)
(* A local variable is reset when the call it belongs to returns.          *)
(*                                                                         *)
(* Spec is a run of main(); WaitSpec one call of wait_for_new_tag;         *)
(* MonSpec a caller of start_nfc_monitor and stop_nfc_monitor; ImgSpec the *)
(* image functions write_hex_to_pos and generate_binary_mfd.               *)
(***************************************************************************)
EXTENDS Integers, Sequences, FiniteSets, TLC

\* ------------------------------------------------------------------ bounds
\* args.count ranges over 1..MaxCount, args.timeout over 1..MaxTimeout ticks.
MaxCount == 2
MaxTimeout == 2

\* ------------------------------------------------------- program constants
\* time.sleep(0.1) in wait_for_new_tag: one tick.
PollTicks == 1
\* self.update_interval = 0.1
UpdateInterval == 1
\* time.sleep(0.5) in check_nfc_reader
StartupTicks == 5
\* time.sleep(2) between two tags in main
NextTagTicks == 20
\* nfc_process.wait(timeout=2) and nfc_thread.join(timeout=2)
GraceTicks == 20
\* write_tag_from_file: maxRetries=3 attempts, 5 time units between them
MaxRetries == 3
RetryDelay == 50

\* The tags that can be put on the reader; "" is "no tag" / the empty UID.
UIDs == {"A", "B"}
NoUID == ""
TagValues == UIDs \cup {NoUID}

VARIABLES
    \* environment
    tag,              \* UID of the tag lying on the reader, or ""
    proc,             \* the nfc-list process: "none", "running", "exited"
    disk,             \* final files present in the working directory
    temp_dir,         \* whether temp_mfd_files exists
    \* NFCController fields
    processed_uids, generated_files, nfc_process, nfc_thread,
    is_running, current_uid,
    age,              \* time.time() - self.last_update_time, up to AgeCap
    \* the background thread _monitor_nfc_output
    tpc, tuid,
    \* main() and the calls it is in
    pc, i, count, timeout, keep_files, cur,
    elapsed,          \* time.time() - start_time of wait_for_new_tag
    quid, stop_ret, attempt, wres,
    \* history (observation only, never read by the program)
    ready,            \* result of check_nfc_reader: "unknown", "yes", "no"
    obs,              \* value the last get_current_uid call returned
    polls,            \* polls of the current wait_for_new_tag call
    warned,           \* whether the last poll logged the duplicate warning
    dups,             \* duplicate warnings of the current call
    written,          \* UIDs write_tag_from_file has been called for
    wtf_elapsed,      \* time spent in the current write_tag_from_file call
    lastOut,          \* what the last external writer invocation gave
    failed,           \* failed attempts of the current write_tag_from_file
    outcome,          \* how the last finished iteration ended
    entered,          \* number of loop iterations entered
    bg_newer,         \* a background observation younger than the pending
                      \* re-query result: "none", "read", "stored"
    \* monitor threads that outlived their stop_nfc_monitor and are no
    \* longer referenced by nfc_thread when a further thread is started
    orphans,
    \* the image functions: the call in progress, its arguments, its result
    ipc, buffer, hex_str, position,
    sector0_block1, sector0_block2, sector2_block3, raised,
    nwrites           \* calls of write_hex_to_pos made by generate_binary_mfd

envVars == <<tag, proc, disk, temp_dir>>
ctlVars == <<processed_uids, generated_files, nfc_process, nfc_thread,
             is_running, current_uid>>
clkVars == <<age, elapsed, wtf_elapsed>>
thrVars == <<tpc, tuid>>
mainVars == <<pc, i, count, timeout, keep_files, cur, quid, stop_ret,
              attempt, wres>>
histVars == <<ready, obs, polls, warned, dups, written, lastOut, failed, outcome,
              entered>>
auxVars == <<bg_newer, orphans>>
imgVars == <<ipc, buffer, hex_str, position,
             sector0_block1, sector0_block2, sector2_block3, raised, nwrites>>
vars == <<envVars, ctlVars, clkVars, thrVars, mainVars, histVars, auxVars,
          imgVars>>

\* `x in list` on a Python list
InList(x, list) == \E k \in 1..Len(list) : list[k] = x

\* What one invocation of the external writer gives: it raised, or its
\* captured output, which may contain "Done" and "blocks written".
NoOutput == [done |-> FALSE, blocks |-> FALSE, error |-> FALSE]
WriterOutputs ==
    {[done |-> d, blocks |-> b, error |-> FALSE] : d \in BOOLEAN, b \in BOOLEAN}
    \cup {[done |-> FALSE, blocks |-> FALSE, error |-> TRUE]}

\* ------------------------------------------------------------------ clock
\* Beyond the staleness interval every age compares alike (line 280).
AgeCap == UpdateInterval + 1
Aged(a, d) == IF a + d > AgeCap THEN AgeCap ELSE a + d

\* d ticks pass: a sleep, or a bounded wait, of the main thread.
InWait == pc \in {"wait_cond", "gcu_check", "gcu_query", "gcu_set_uid",
                  "gcu_set_time", "gcu_ret"}
Pass(d) ==
    /\ age' = Aged(age, d)
    /\ elapsed' = IF InWait THEN elapsed + d ELSE elapsed
    /\ wtf_elapsed' = IF pc = "wtf_attempt" THEN wtf_elapsed + d
                                             ELSE wtf_elapsed

\* ------------------------------------------------------------------- Init
\* The state after NFCController() in main: __init__ has emptied and
\* re-created the temp directory; no monitor is running, and
\* last_update_time = 0 lies far in the past.
Init ==
    /\ tag \in TagValues
    /\ proc = "none"
    /\ disk = {}
    /\ temp_dir = TRUE
    /\ processed_uids = <<>>
    /\ generated_files = <<>>
    /\ nfc_process = "None"
    /\ nfc_thread = "None"
    /\ is_running = FALSE
    /\ current_uid = NoUID
    /\ age = AgeCap
    /\ tpc = "none"
    /\ tuid = NoUID
    /\ pc = "check_start"
    /\ i = 0
    /\ count \in 1..MaxCount
    /\ timeout \in 1..MaxTimeout
    /\ keep_files \in BOOLEAN
    /\ cur = NoUID
    /\ elapsed = 0
    /\ quid = NoUID
    /\ stop_ret = "none"
    /\ attempt = 0
    /\ wres = FALSE
    /\ ready = "unknown"
    /\ obs = NoUID
    /\ polls = 0
    /\ warned = FALSE
    /\ dups = 0
    /\ written = {}
    /\ wtf_elapsed = 0
    /\ lastOut = NoOutput
    /\ failed = 0
    /\ outcome = "none"
    /\ entered = 0
    /\ bg_newer = "none"
    /\ orphans = 0
    /\ ipc = "none"
    /\ buffer = <<>>
    /\ hex_str = <<>>
    /\ position = 0
    /\ sector0_block1 = <<>>
    /\ sector0_block2 = <<>>
    /\ sector2_block3 = <<>>
    /\ raised = FALSE
    /\ nwrites = 0

\* ------------------------------------------------------------ environment
\* The operator puts a tag on the reader, takes it off or swaps it.
TagChange ==
    /\ \E t \in TagValues \ {tag} : tag' = t
    /\ UNCHANGED <<proc, disk, temp_dir>>
    /\ UNCHANGED <<ctlVars, clkVars, thrVars, mainVars, histVars>>
    /\ UNCHANGED <<auxVars, imgVars>>

\* The nfc-list process ends on its own.
ProcExit ==
    /\ proc = "running"
    /\ proc' = "exited"
    /\ UNCHANGED <<tag, disk, temp_dir>>
    /\ UNCHANGED <<ctlVars, clkVars, thrVars, mainVars, histVars>>
    /\ UNCHANGED <<auxVars, imgVars>>

\* ------------------------------------------- _monitor_nfc_output (thread)
\* while self.is_running and self.nfc_process is not None:
MonLoop ==
    /\ tpc = "loop"
    /\ tpc' = IF is_running /\ nfc_process # "None" THEN "read" ELSE "end"
    /\ UNCHANGED <<tuid, envVars, ctlVars, clkVars, mainVars, histVars>>
    /\ UNCHANGED <<auxVars, imgVars>>

\* output = self.nfc_process.stdout.readline() and the parse of the line.
\* A running process prints a UID line for the tag on the reader, a
\* "No NFC device found" line when there is none, or some other line; an
\* ended process gives EOF, and poll() is not None breaks the loop.  When
\* stop_nfc_monitor has set nfc_process to None the attribute access raises
\* and the except clause breaks the loop.
MonRead ==
    /\ tpc = "read"
    /\ \/ /\ nfc_process # "None" /\ proc = "running" /\ tag # NoUID
          /\ tuid' = tag /\ tpc' = "set_uid"
       \/ /\ nfc_process # "None" /\ proc = "running" /\ tag = NoUID
          /\ tuid' = NoUID /\ tpc' = "set_uid"
       \/ /\ nfc_process # "None" /\ proc = "running"
          /\ tpc' = "loop" /\ UNCHANGED tuid
       \/ /\ nfc_process = "None" \/ proc # "running"
          /\ tpc' = "end" /\ UNCHANGED tuid
    /\ UNCHANGED <<envVars, ctlVars, clkVars, mainVars, histVars>>
    /\ bg_newer' = IF pc = "gcu_set_uid" /\ bg_newer = "none"
                       /\ tpc' = "set_uid"
                    THEN "read" ELSE bg_newer
    /\ UNCHANGED <<orphans, imgVars>>

\* self.current_uid = uid   (or "" for the "No NFC device found" line)
MonSetUid ==
    /\ tpc = "set_uid"
    /\ current_uid' = tuid
    /\ tuid' = NoUID
    /\ tpc' = "set_time"
    /\ UNCHANGED <<envVars, clkVars, mainVars, histVars>>
    /\ UNCHANGED <<processed_uids, generated_files, nfc_process, nfc_thread,
                   is_running>>
    /\ bg_newer' = IF bg_newer = "read" THEN "stored" ELSE bg_newer
    /\ UNCHANGED <<orphans, imgVars>>

\* self.last_update_time = time.time()
MonSetTime ==
    /\ tpc = "set_time"
    /\ age' = 0
    /\ tpc' = "loop"
    /\ UNCHANGED <<elapsed, wtf_elapsed>>
    /\ UNCHANGED <<tuid, envVars, ctlVars, mainVars, histVars>>
    /\ UNCHANGED <<auxVars, imgVars>>

\* self.is_running = False after the loop
MonEnd ==
    /\ tpc = "end"
    /\ is_running' = FALSE
    /\ tpc' = "exited"
    /\ UNCHANGED <<tuid, envVars, clkVars, mainVars, histVars>>
    /\ UNCHANGED <<processed_uids, generated_files, nfc_process, nfc_thread,
                   current_uid>>
    /\ UNCHANGED <<auxVars, imgVars>>

Monitor == MonLoop \/ MonRead \/ MonSetUid \/ MonSetTime \/ MonEnd

\* ------------------------------------------------------- stop_nfc_monitor
\* stop_nfc_monitor without line 229 (self.is_running = False).
MutStopProcKeepsRunning ==
    /\ pc = "stop_proc"
    /\ IF nfc_process # "None"
         THEN /\ proc' = "exited"
              /\ \E slow \in BOOLEAN :
                    Pass(IF slow /\ proc = "running" THEN GraceTicks ELSE 0)
         ELSE UNCHANGED <<proc, clkVars>>
    /\ nfc_process' = "None"
    /\ pc' = "stop_join"
    /\ UNCHANGED <<tag, disk, temp_dir, thrVars, histVars>>
    /\ UNCHANGED <<processed_uids, generated_files, nfc_thread, current_uid,
                   is_running>>
    /\ UNCHANGED <<i, count, timeout, keep_files, cur, quid, stop_ret,
                   attempt, wres>>
    /\ UNCHANGED <<auxVars, imgVars>>

\* Lines 229-239: is_running = False; terminate the process, wait up to two
\* seconds, kill it when it has not ended; nfc_process = None.
StopProc ==
    /\ pc = "stop_proc"
    /\ is_running' = FALSE
    /\ IF nfc_process # "None"
         THEN /\ proc' = "exited"
              /\ \E slow \in BOOLEAN :
                    Pass(IF slow /\ proc = "running" THEN GraceTicks ELSE 0)
         ELSE UNCHANGED <<proc, clkVars>>
    /\ nfc_process' = "None"
    /\ pc' = "stop_join"
    /\ UNCHANGED <<tag, disk, temp_dir, thrVars, histVars>>
    /\ UNCHANGED <<processed_uids, generated_files, nfc_thread, current_uid>>
    /\ UNCHANGED <<i, count, timeout, keep_files, cur, quid, stop_ret,
                   attempt, wres>>
    /\ UNCHANGED <<auxVars, imgVars>>

\* Lines 241-243: join the thread for at most two seconds; nfc_thread = None.
StopJoin ==
    /\ pc = "stop_join"
    /\ IF nfc_thread # "None"
         THEN \/ tpc = "exited" /\ Pass(0)
              \/ tpc # "exited" /\ Pass(GraceTicks)
         ELSE UNCHANGED clkVars
    /\ nfc_thread' = "None"
    /\ pc' = stop_ret
    /\ stop_ret' = "none"
    /\ UNCHANGED <<envVars, thrVars, histVars>>
    /\ UNCHANGED <<processed_uids, generated_files, nfc_process, is_running,
                   current_uid>>
    /\ UNCHANGED <<i, count, timeout, keep_files, cur, quid, attempt, wres>>
    /\ UNCHANGED <<auxVars, imgVars>>

\* ------------------------------------- check_nfc_reader / start_nfc_monitor
\* Lines 330 and 196-223: start_nfc_monitor.  Popen either gives a running
\* process, after which the thread is started, or raises: the except clauses
\* of start_nfc_monitor and of check_nfc_reader then call stop_nfc_monitor
\* (nothing to stop) and check_nfc_reader returns False.
CheckStart ==
    /\ pc = "check_start"
    /\ \/ /\ nfc_process = "None"
          /\ nfc_process' = "proc"
          /\ proc' = "running"
          /\ is_running' = TRUE
          /\ nfc_thread' = "thread"
          /\ tpc' = "loop"
          /\ pc' = "check_sleep"
          /\ UNCHANGED ready
       \/ /\ nfc_process = "None"
          /\ is_running' = FALSE
          /\ ready' = "no"
          /\ pc' = "finally"
          /\ UNCHANGED <<nfc_process, proc, nfc_thread, tpc>>
    /\ UNCHANGED <<tag, disk, temp_dir, tuid, clkVars>>
    /\ UNCHANGED <<processed_uids, generated_files, current_uid>>
    /\ UNCHANGED <<i, count, timeout, keep_files, cur, quid, stop_ret,
                   attempt, wres>>
    /\ UNCHANGED <<obs, polls, warned, dups, written, lastOut, failed,
                   outcome, entered>>
    /\ UNCHANGED <<auxVars, imgVars>>

\* Line 333: time.sleep(0.5)
CheckSleep ==
    /\ pc = "check_sleep"
    /\ Pass(StartupTicks)
    /\ pc' = "check_poll"
    /\ UNCHANGED <<envVars, ctlVars, thrVars, histVars>>
    /\ UNCHANGED <<i, count, timeout, keep_files, cur, quid, stop_ret,
                   attempt, wres>>
    /\ UNCHANGED <<auxVars, imgVars>>

\* Lines 395-400: main enters the tag loop only when check_nfc_reader
\* returned True, and otherwise returns (through the finally clause).
MutAfterCheck(ok) == "loop_head"
AfterCheck(ok) == IF ok THEN "loop_head" ELSE "finally"

\* Lines 336-363: the process must be running; then one nfc-list run, which
\* exits non-zero, prints "No NFC device found", raises (timeout) or succeeds.
CheckPoll ==
    /\ pc = "check_poll"
    /\ IF nfc_process = "None" \/ proc # "running"
         THEN /\ ready' = "no"
              /\ pc' = AfterCheck(FALSE)
              /\ UNCHANGED stop_ret
         ELSE \E r \in {"nonzero", "nodevice", "raise", "ok"} :
                 /\ ready' = IF r = "ok" THEN "yes" ELSE "no"
                 /\ IF r = "raise"
                      THEN pc' = "stop_proc" /\ stop_ret' = AfterCheck(FALSE)
                      ELSE pc' = AfterCheck(r = "ok") /\ UNCHANGED stop_ret
    /\ UNCHANGED <<envVars, ctlVars, clkVars, thrVars>>
    /\ UNCHANGED <<i, count, timeout, keep_files, cur, quid, attempt, wres>>
    /\ UNCHANGED <<obs, polls, warned, dups, written, lastOut, failed,
                   outcome, entered>>
    /\ UNCHANGED <<auxVars, imgVars>>

\* --------------------------------------------------------- main: the loop
\* Lines 400-404 and 307-308: for i in range(count); an iteration starts by
\* calling wait_for_new_tag, which takes start_time.  Line 446 after the loop.
LoopHead ==
    /\ pc = "loop_head"
    /\ IF i < count
         THEN /\ entered' = entered + 1
              /\ elapsed' = 0
              /\ pc' = "wait_cond"
         ELSE /\ pc' = "finally"
              /\ UNCHANGED <<entered, elapsed>>
    /\ UNCHANGED <<age, wtf_elapsed>>
    /\ UNCHANGED <<envVars, ctlVars, thrVars>>
    /\ UNCHANGED <<i, count, timeout, keep_files, cur, quid, stop_ret,
                   attempt, wres>>
    /\ UNCHANGED <<ready, obs, polls, warned, dups, written, lastOut,
                   failed, outcome>>
    /\ UNCHANGED <<auxVars, imgVars>>

\* ------------------------------------------------------- wait_for_new_tag
\* Line 310: the loop runs while time.time() - start_time < timeout.
MutWaitExpiredEarly(since, limit) == ~(since + PollTicks < limit)
WaitExpired(since, limit) == ~(since < limit)

\* Lines 310, 320-321: the loop condition; on expiry return "".
WaitCond ==
    /\ pc = "wait_cond"
    /\ IF WaitExpired(elapsed, timeout)
         THEN cur' = NoUID /\ pc' = "after_wait"
         ELSE pc' = "gcu_check" /\ UNCHANGED cur
    /\ UNCHANGED <<envVars, ctlVars, clkVars, thrVars, histVars>>
    /\ UNCHANGED <<i, count, timeout, keep_files, quid, stop_ret, attempt,
                   wres>>
    /\ UNCHANGED <<auxVars, imgVars>>

\* Line 280: current_time - self.last_update_time > self.update_interval
MutStaleAlways(a) == TRUE
Stale(a) == a > UpdateInterval

\* Lines 279-280 of get_current_uid
GcuCheck ==
    /\ pc = "gcu_check"
    /\ pc' = IF Stale(age) THEN "gcu_query" ELSE "gcu_ret"
    /\ UNCHANGED <<envVars, ctlVars, clkVars, thrVars, histVars>>
    /\ UNCHANGED <<i, count, timeout, keep_files, cur, quid, stop_ret,
                   attempt, wres>>
    /\ UNCHANGED <<auxVars, imgVars>>

\* get_current_uid storing "" when the re-query shows no UID line.
MutGcuQueryClears ==
    /\ pc = "gcu_query"
    /\ \/ tag = NoUID /\ quid' = NoUID /\ pc' = "gcu_set_uid"
       \/ tag # NoUID /\ quid' = tag /\ pc' = "gcu_set_uid"
    /\ UNCHANGED <<envVars, ctlVars, clkVars, thrVars, histVars>>
    /\ UNCHANGED <<i, count, timeout, keep_files, cur, stop_ret, attempt,
                   wres>>
    /\ UNCHANGED <<auxVars, imgVars>>
\* Lines 283-297: one nfc-list run.  It fails (non-zero exit, timeout,
\* exception) or prints no UID line, and nothing changes; or it prints the
\* UID of the tag on the reader.
GcuQuery ==
    /\ pc = "gcu_query"
    /\ \/ pc' = "gcu_ret" /\ UNCHANGED quid
       \/ tag # NoUID /\ quid' = tag /\ pc' = "gcu_set_uid"
    /\ UNCHANGED <<envVars, ctlVars, clkVars, thrVars, histVars>>
    /\ UNCHANGED <<i, count, timeout, keep_files, cur, stop_ret, attempt,
                   wres>>
    /\ UNCHANGED <<auxVars, imgVars>>

\* Line 293: self.current_uid = line.split(':')[-1].strip()
GcuSetUid ==
    /\ pc = "gcu_set_uid"
    /\ current_uid' = quid
    /\ quid' = NoUID
    /\ pc' = "gcu_set_time"
    /\ UNCHANGED <<envVars, clkVars, thrVars, histVars>>
    /\ UNCHANGED <<processed_uids, generated_files, nfc_process, nfc_thread,
                   is_running>>
    /\ UNCHANGED <<i, count, timeout, keep_files, cur, stop_ret, attempt,
                   wres>>
    /\ bg_newer' = "none"
    /\ UNCHANGED <<orphans, imgVars>>

\* Line 294: self.last_update_time = current_time
GcuSetTime ==
    /\ pc = "gcu_set_time"
    /\ age' = 0
    /\ pc' = "gcu_ret"
    /\ UNCHANGED <<elapsed, wtf_elapsed>>
    /\ UNCHANGED <<envVars, ctlVars, thrVars, histVars>>
    /\ UNCHANGED <<i, count, timeout, keep_files, cur, quid, stop_ret,
                   attempt, wres>>
    /\ UNCHANGED <<auxVars, imgVars>>

\* Lines 312-317: what wait_for_new_tag makes of a polled UID.
MutPollOutcomeInverted(uid, processed) ==
    IF uid = NoUID THEN "empty"
    ELSE IF InList(uid, processed) THEN "new" ELSE "duplicate"
MutPollOutcomeNoCheck(uid, processed) ==
    IF uid = NoUID THEN "empty" ELSE "new"
PollOutcome(uid, processed) ==
    IF uid = NoUID THEN "empty"
    ELSE IF ~InList(uid, processed) THEN "new" ELSE "duplicate"

\* Line 298 and lines 311-318: get_current_uid returns self.current_uid;
\* a new UID is returned to main, a processed one logs the duplicate
\* warning; unless it returns, the loop sleeps 100 ms.
MutWaitPollResetClock ==
    /\ pc = "gcu_ret"
    /\ obs' = current_uid
    /\ polls' = polls + 1
    /\ LET o == PollOutcome(current_uid, processed_uids) IN
         /\ warned' = (o = "duplicate")
         /\ dups' = IF o = "duplicate" THEN dups + 1 ELSE dups
         /\ IF o = "new"
              THEN /\ cur' = current_uid
                   /\ pc' = "after_wait"
                   /\ UNCHANGED clkVars
              ELSE /\ age' = Aged(age, PollTicks)
                   /\ elapsed' = IF o = "duplicate" THEN 0
                                                    ELSE elapsed + PollTicks
                   /\ UNCHANGED wtf_elapsed
                   /\ pc' = "wait_cond"
                   /\ UNCHANGED cur
    /\ UNCHANGED <<envVars, ctlVars, thrVars>>
    /\ UNCHANGED <<i, count, timeout, keep_files, quid, stop_ret, attempt,
                   wres>>
    /\ UNCHANGED <<ready, written, lastOut, failed, outcome, entered>>
    /\ UNCHANGED <<auxVars, imgVars>>
WaitPoll ==
    /\ pc = "gcu_ret"
    /\ obs' = current_uid
    /\ polls' = polls + 1
    /\ LET o == PollOutcome(current_uid, processed_uids) IN
         /\ warned' = (o = "duplicate")
         /\ dups' = IF o = "duplicate" THEN dups + 1 ELSE dups
         /\ IF o = "new"
              THEN /\ cur' = current_uid
                   /\ pc' = "after_wait"
                   /\ UNCHANGED clkVars
              ELSE /\ Pass(PollTicks)
                   /\ pc' = "wait_cond"
                   /\ UNCHANGED cur
    /\ UNCHANGED <<envVars, ctlVars, thrVars>>
    /\ UNCHANGED <<i, count, timeout, keep_files, quid, stop_ret, attempt,
                   wres>>
    /\ UNCHANGED <<ready, written, lastOut, failed, outcome, entered>>
    /\ UNCHANGED <<auxVars, imgVars>>

\* ------------------------------------------------ main: one tag, continued
\* Lines 405-426: an empty UID (timeout) skips the iteration; otherwise the
\* image is generated and written to the temp file, and an exception there
\* (ValueError of write_hex_to_pos, OSError of open) skips the iteration;
\* otherwise write_tag_from_file is called.
AfterWait ==
    /\ pc = "after_wait"
    /\ IF cur = NoUID
         THEN /\ outcome' = "timeout"
              /\ i' = i + 1
              /\ pc' = "loop_head"
              /\ UNCHANGED <<cur, written>>
         ELSE \E generated \in BOOLEAN :
                IF generated
                  THEN /\ written' = written \cup {cur}
                       /\ pc' = "wtf_attempt"
                       /\ UNCHANGED <<i, outcome, cur>>
                  ELSE /\ outcome' = "genfail"
                       /\ i' = i + 1
                       /\ cur' = NoUID
                       /\ pc' = "loop_head"
                       /\ UNCHANGED written
    /\ elapsed' = 0
    /\ obs' = NoUID
    /\ polls' = 0
    /\ warned' = FALSE
    /\ dups' = 0
    /\ UNCHANGED <<age, wtf_elapsed>>
    /\ UNCHANGED <<envVars, ctlVars, thrVars>>
    /\ UNCHANGED <<count, timeout, keep_files, quid, stop_ret, attempt, wres>>
    /\ UNCHANGED <<ready, lastOut, failed, entered>>
    /\ UNCHANGED <<auxVars, imgVars>>

\* write_tag_from_file: an attempt succeeded when the writer's captured
\* output contains both "Done" and "blocks written"; an error raised by the
\* invocation counts as a failed attempt.
MutWriteSucceededOnDone(out) == ~out.error /\ out.done
WriteSucceeded(out) == ~out.error /\ out.done /\ out.blocks

\* write_tag_from_file: one attempt of at most MaxRetries; after a failed
\* attempt that is not the last, the fixed delay.
WtfAttempt ==
    /\ pc = "wtf_attempt"
    /\ attempt < MaxRetries
    /\ \E out \in WriterOutputs :
           /\ lastOut' = out
           /\ attempt' = attempt + 1
           /\ IF WriteSucceeded(out)
                THEN /\ wres' = TRUE
                     /\ pc' = "after_write"
                     /\ UNCHANGED <<clkVars, failed>>
                ELSE /\ failed' = failed + 1
                     /\ IF attempt + 1 < MaxRetries
                          THEN /\ Pass(RetryDelay)
                               /\ UNCHANGED <<pc, wres>>
                          ELSE /\ wres' = FALSE
                               /\ pc' = "after_write"
                               /\ UNCHANGED clkVars
    /\ UNCHANGED <<envVars, ctlVars, thrVars>>
    /\ UNCHANGED <<i, count, timeout, keep_files, cur, quid, stop_ret>>
    /\ UNCHANGED <<ready, obs, polls, warned, dups, written, outcome,
                   entered>>
    /\ UNCHANGED <<auxVars, imgVars>>

\* Lines 426-433: the UID is appended to processed_uids only in the branch
\* of a successful write, after os.rename.
MutMarkProcessedAlways(list, uid, done) == Append(list, uid)
MarkProcessed(list, uid, done) == IF done THEN Append(list, uid) ELSE list

\* Lines 426-433.  os.rename is not inside a try: when it raises, the
\* exception leaves the for loop and main goes to its finally clause.
AfterWrite ==
    /\ pc = "after_write"
    /\ \E renamed \in BOOLEAN :
         /\ processed_uids' = MarkProcessed(processed_uids, cur, wres /\ renamed)
         /\ IF wres /\ renamed
              THEN /\ disk' = disk \cup {i + 1}
                   /\ generated_files' = Append(generated_files, i + 1)
              ELSE UNCHANGED <<disk, generated_files>>
         /\ IF wres /\ ~renamed
              THEN /\ outcome' = "renamefail"
                   /\ pc' = "finally"
              ELSE /\ outcome' = IF wres THEN "ok" ELSE "writefail"
                   /\ pc' = "cleanup_temp"
    /\ cur' = NoUID
    /\ attempt' = 0
    /\ wres' = FALSE
    /\ lastOut' = NoOutput
    /\ failed' = 0
    /\ wtf_elapsed' = 0
    /\ UNCHANGED <<age, elapsed>>
    /\ UNCHANGED <<tag, proc, temp_dir, thrVars>>
    /\ UNCHANGED <<nfc_process, nfc_thread, is_running, current_uid>>
    /\ UNCHANGED <<i, count, timeout, keep_files, quid, stop_ret>>
    /\ UNCHANGED <<ready, obs, polls, warned, dups, written, entered>>
    /\ UNCHANGED <<auxVars, imgVars>>

\* Lines 436-444: the temp files are unlinked; before a further tag, two
\* seconds of sleep.
CleanupTemp ==
    /\ pc = "cleanup_temp"
    /\ Pass(IF i < count - 1 THEN NextTagTicks ELSE 0)
    /\ i' = i + 1
    /\ pc' = "loop_head"
    /\ UNCHANGED <<envVars, ctlVars, thrVars, histVars>>
    /\ UNCHANGED <<count, timeout, keep_files, cur, quid, stop_ret, attempt,
                   wres>>
    /\ UNCHANGED <<auxVars, imgVars>>

\* ------------------------------------------------------ main: the finally
\* Line 450: nfc.stop_nfc_monitor()
Finally ==
    /\ pc = "finally"
    /\ pc' = "stop_proc"
    /\ stop_ret' = "cleanup"
    /\ UNCHANGED <<envVars, ctlVars, clkVars, thrVars, histVars>>
    /\ UNCHANGED <<i, count, timeout, keep_files, cur, quid, attempt, wres>>
    /\ UNCHANGED <<auxVars, imgVars>>

\* Lines 182-194, cleanup_generated_files: the files of generated_files are
\* unlinked unless keep_files.
MutRemainingFilesKept(files, generated, keep) == files
RemainingFiles(files, generated, keep) ==
    IF keep THEN files
    ELSE files \ {generated[k] : k \in 1..Len(generated)}

\* Lines 452-459: cleanup_generated_files, then rmtree of the temp directory.
Cleanup ==
    /\ pc = "cleanup"
    /\ disk' = RemainingFiles(disk, generated_files, keep_files)
    /\ temp_dir' = FALSE
    /\ pc' = "done"
    /\ UNCHANGED <<tag, proc, ctlVars, clkVars, thrVars, histVars>>
    /\ UNCHANGED <<i, count, timeout, keep_files, cur, quid, stop_ret,
                   attempt, wres>>
    /\ UNCHANGED <<auxVars, imgVars>>

\* ------------------------------------------------------------------- Next
Main ==
    \/ CheckStart \/ CheckSleep \/ CheckPoll
    \/ LoopHead \/ WaitCond \/ GcuCheck \/ GcuQuery \/ GcuSetUid \/ GcuSetTime
    \/ WaitPoll \/ AfterWait \/ WtfAttempt \/ AfterWrite \/ CleanupTemp
    \/ Finally \/ StopProc \/ StopJoin \/ Cleanup

Environment == TagChange \/ ProcExit

Next == Main \/ Monitor \/ Environment

Spec == Init /\ [][Next]_vars

\* The main thread is scheduled again and again until main returns.
FairSpec == Spec /\ WF_vars(Main)
\* ---------------------------------------------- wait_for_new_tag on its own
\* One call of wait_for_new_tag, entered at its loop condition right after
\* start_time was taken: the monitor is running, the processed list is any
\* list without repetition, and the monitor state is whatever earlier
\* activity left.
ProcessedLists ==
    {<<>>} \cup {<<u>> : u \in UIDs}
           \cup {p \in UIDs \X UIDs : p[1] # p[2]}

WaitInit ==
    /\ tag \in TagValues
    /\ proc = "running"
    /\ disk = {}
    /\ temp_dir = TRUE
    /\ processed_uids \in ProcessedLists
    /\ generated_files = <<>>
    /\ nfc_process = "proc"
    /\ nfc_thread = "thread"
    /\ is_running = TRUE
    /\ current_uid \in TagValues
    /\ age \in 0..AgeCap
    /\ tpc = "loop"
    /\ tuid = NoUID
    /\ pc = "wait_cond"
    /\ i = 0
    /\ count = 1
    /\ timeout \in 1..MaxTimeout
    /\ keep_files = FALSE
    /\ cur = NoUID
    /\ elapsed = 0
    /\ quid = NoUID
    /\ stop_ret = "none"
    /\ attempt = 0
    /\ wres = FALSE
    /\ ready = "yes"
    /\ obs = NoUID
    /\ polls = 0
    /\ warned = FALSE
    /\ dups = 0
    /\ written = {}
    /\ wtf_elapsed = 0
    /\ lastOut = NoOutput
    /\ failed = 0
    /\ outcome = "none"
    /\ entered = 1
    /\ bg_newer = "none"
    /\ orphans = 0
    /\ ipc = "none"
    /\ buffer = <<>>
    /\ hex_str = <<>>
    /\ position = 0
    /\ sector0_block1 = <<>>
    /\ sector0_block2 = <<>>
    /\ sector2_block3 = <<>>
    /\ raised = FALSE
    /\ nwrites = 0

WaitMain ==
    WaitCond \/ GcuCheck \/ GcuQuery \/ GcuSetUid \/ GcuSetTime \/ WaitPoll

WaitNext == WaitMain \/ Monitor \/ Environment

\* The calling thread is scheduled again and again until the call returns.
WaitSpec == WaitInit /\ [][WaitNext]_vars /\ WF_vars(WaitMain)

\* ------------------------------ start_nfc_monitor and stop_nfc_monitor alone
\* A caller makes MaxCalls calls of start_nfc_monitor and stop_nfc_monitor
\* on a fresh controller, in any order; i counts the calls that returned and
\* outcome tells what the last call was and how it ended.
MaxCalls == 4

MonInit ==
    /\ tag \in TagValues
    /\ proc = "none"
    /\ disk = {}
    /\ temp_dir = TRUE
    /\ processed_uids = <<>>
    /\ generated_files = <<>>
    /\ nfc_process = "None"
    /\ nfc_thread = "None"
    /\ is_running = FALSE
    /\ current_uid = NoUID
    /\ age = AgeCap
    /\ tpc = "none"
    /\ tuid = NoUID
    /\ pc = "idle"
    /\ i = 0
    /\ count = MaxCalls
    /\ timeout = 1
    /\ keep_files = FALSE
    /\ cur = NoUID
    /\ elapsed = 0
    /\ quid = NoUID
    /\ stop_ret = "none"
    /\ attempt = 0
    /\ wres = FALSE
    /\ ready = "unknown"
    /\ obs = NoUID
    /\ polls = 0
    /\ warned = FALSE
    /\ dups = 0
    /\ written = {}
    /\ wtf_elapsed = 0
    /\ lastOut = NoOutput
    /\ failed = 0
    /\ outcome = "none"
    /\ entered = 0
    /\ bg_newer = "none"
    /\ orphans = 0
    /\ ipc = "none"
    /\ buffer = <<>>
    /\ hex_str = <<>>
    /\ position = 0
    /\ sector0_block1 = <<>>
    /\ sector0_block2 = <<>>
    /\ sector2_block3 = <<>>
    /\ raised = FALSE
    /\ nwrites = 0

\* threading.Thread objects of this controller that are alive.
ThreadAlive == tpc \notin {"none", "exited"}
LiveThreads == orphans + (IF ThreadAlive THEN 1 ELSE 0)

\* Lines 196-223, start_nfc_monitor.  With a process handle held it returns
\* at once (line 200).  Otherwise Popen gives a process, is_running is set,
\* and a new thread is created and started, whether or not the thread of an
\* earlier start is still alive; or Popen raises, the except clause calls
\* stop_nfc_monitor (nothing to stop) and raises again.
StartNfcMonitor ==
    /\ pc = "idle"
    /\ i < count
    /\ \/ /\ nfc_process # "None"
          /\ outcome' = "start_returned"
          /\ UNCHANGED <<proc, nfc_process, nfc_thread, is_running, thrVars,
                         orphans>>
       \/ /\ nfc_process = "None"
          /\ nfc_process' = "proc"
          /\ proc' = "running"
          /\ is_running' = TRUE
          /\ nfc_thread' = "thread"
          /\ orphans' = IF ThreadAlive THEN orphans + 1 ELSE orphans
          /\ tpc' = "loop"
          /\ tuid' = NoUID
          /\ outcome' = "started"
       \/ /\ nfc_process = "None"
          /\ is_running' = FALSE
          /\ outcome' = "start_raised"
          /\ UNCHANGED <<proc, nfc_process, nfc_thread, thrVars, orphans>>
    /\ pc' = "call_ret"
    /\ UNCHANGED <<tag, disk, temp_dir, clkVars, bg_newer, imgVars>>
    /\ UNCHANGED <<processed_uids, generated_files, current_uid>>
    /\ UNCHANGED <<i, count, timeout, keep_files, cur, quid, stop_ret,
                   attempt, wres>>
    /\ UNCHANGED <<ready, obs, polls, warned, dups, written, lastOut, failed,
                   entered>>

\* The caller calls stop_nfc_monitor (lines 225-243).
CallStop ==
    /\ pc = "idle"
    /\ i < count
    /\ pc' = "stop_proc"
    /\ stop_ret' = "call_ret"
    /\ outcome' = IF outcome \in {"stopped", "stopped_again"}
                    THEN "stopped_again" ELSE "stopped"
    /\ UNCHANGED <<envVars, ctlVars, clkVars, thrVars, auxVars, imgVars>>
    /\ UNCHANGED <<i, count, timeout, keep_files, cur, quid, attempt, wres>>
    /\ UNCHANGED <<ready, obs, polls, warned, dups, written, lastOut, failed,
                   entered>>

\* The call has returned to the caller.
CallReturn ==
    /\ pc = "call_ret"
    /\ i' = i + 1
    /\ pc' = "idle"
    /\ UNCHANGED <<envVars, ctlVars, clkVars, thrVars, histVars, auxVars,
                   imgVars>>
    /\ UNCHANGED <<count, timeout, keep_files, cur, quid, stop_ret, attempt,
                   wres>>

\* Lines 250-271 in a thread that is no longer referenced: of such a thread
\* the model keeps only that it is alive.  It ends, at a time of its own,
\* with self.is_running = False (line 270).
OrphanEnd ==
    /\ orphans > 0
    /\ orphans' = orphans - 1
    /\ is_running' = FALSE
    /\ UNCHANGED <<envVars, clkVars, thrVars, mainVars, histVars, bg_newer,
                   imgVars>>
    /\ UNCHANGED <<processed_uids, generated_files, nfc_process, nfc_thread,
                   current_uid>>

MonMain == StartNfcMonitor \/ CallStop \/ CallReturn \/ StopProc \/ StopJoin

MonNext == MonMain \/ Monitor \/ OrphanEnd \/ Environment

MonSpec == MonInit /\ [][MonNext]_vars

\* ------------------------------------ write_hex_to_pos, generate_binary_mfd
\* A str is a sequence of one-character strings, a bytearray a function
\* from 0..len-1 to 0..255.  An optional argument is <<>> for None and <<s>>
\* for the string s.
BufferSize == 1024
BlockChars == 32
BlockBytes == 16
SectorBytes == 64

HexDigits ==
    <<"0", "1", "2", "3", "4", "5", "6", "7", "8", "9",
      "A", "B", "C", "D", "E", "F">>
LowerDigits == <<"a", "b", "c", "d", "e", "f">>
IsUpperDigit(c) == \E k \in 1..16 : HexDigits[k] = c
IsLowerDigit(c) == \E k \in 1..6 : LowerDigits[k] = c
IsHexDigit(c) == IsUpperDigit(c) \/ IsLowerDigit(c)
DigitValue(c) ==
    IF IsUpperDigit(c) THEN (CHOOSE k \in 1..16 : HexDigits[k] = c) - 1
                       ELSE (CHOOSE k \in 1..6 : LowerDigits[k] = c) + 9

\* int(s, 16) of Python for a string s of the two characters a, b: <<v>>
\* for the value v, <<>> for ValueError.  int strips white space and takes
\* a sign, so that " F", "F ", "+F" and "-F" are accepted besides two digits.
IntBase16(a, b) ==
    IF IsHexDigit(a) /\ IsHexDigit(b)
      THEN <<16 * DigitValue(a) + DigitValue(b)>>
    ELSE IF a \in {" ", "+"} /\ IsHexDigit(b) THEN <<DigitValue(b)>>
    ELSE IF a = "-" /\ IsHexDigit(b) THEN <<0 - DigitValue(b)>>
    ELSE IF IsHexDigit(a) /\ b = " " THEN <<DigitValue(a)>>
    ELSE <<>>

\* bytearray(1024)
bytearray == [k \in 0..(BufferSize - 1) |-> 0]

\* Lines 73-75: the loop of write_hex_to_pos from its index k on.  A byte
\* is stored as soon as it is decoded; int raises ValueError, and so does
\* the store of a value outside range(256), IndexError the store outside
\* the buffer.
RECURSIVE WriteBytes(_, _, _, _)
WriteBytes(buf, s, pos, k) ==
    IF k = BlockBytes THEN [buffer |-> buf, raised |-> FALSE]
    ELSE LET byte == IntBase16(s[2 * k + 1], s[2 * k + 2]) IN
         IF byte = <<>> \/ pos + k \notin DOMAIN buf
           THEN [buffer |-> buf, raised |-> TRUE]
         ELSE IF byte[1] \notin 0..255
           THEN [buffer |-> buf, raised |-> TRUE]
         ELSE WriteBytes([buf EXCEPT ![pos + k] = byte[1]], s, pos, k + 1)

\* Lines 64-75
write_hex_to_pos(buf, s, pos) ==
    IF Len(s) # BlockChars THEN [buffer |-> buf, raised |-> TRUE]
                           ELSE WriteBytes(buf, s, pos, 0)

\* The constant blocks of generate_binary_mfd.
\* line 99
Sector0Block0 ==
    <<"1", "1", "E", "E", "E", "8", "2", "A", "3", "D", "0", "8", "0", "4", "0", "0",
      "0", "4", "7", "A", "C", "4", "9", "3", "F", "C", "8", "5", "B", "7", "9", "8">>
\* line 102
Sector0Trailer ==
    <<"7", "0", "2", "A", "2", "6", "3", "0", "3", "4", "4", "B", "0", "7", "8", "7",
      "8", "F", "6", "9", "2", "8", "5", "7", "3", "8", "5", "F", "6", "8", "2", "9">>
\* line 105
Sector1Block0 ==
    <<"1", "6", "4", "4", "F", "C", "A", "8", "3", "E", "D", "E", "5", "8", "D", "6",
      "4", "6", "8", "3", "C", "5", "3", "8", "9", "9", "F", "4", "0", "A", "E", "4">>
\* line 106
DataBlock ==
    <<"D", "1", "0", "5", "6", "0", "C", "1", "F", "7", "6", "A", "C", "1", "5", "1",
      "B", "F", "0", "7", "3", "2", "E", "6", "7", "6", "0", "0", "5", "2", "A", "4">>
\* line 108
Sector1Trailer ==
    <<"7", "0", "2", "A", "2", "6", "3", "0", "3", "4", "4", "B", "6", "1", "E", "7",
      "8", "9", "6", "9", "2", "8", "5", "7", "3", "8", "5", "F", "6", "8", "2", "9">>
\* line 114
Sector2Trailer ==
    <<"7", "0", "2", "A", "2", "6", "3", "0", "3", "4", "4", "B", "3", "4", "B", "7",
      "8", "C", "6", "9", "2", "8", "5", "7", "3", "8", "5", "F", "6", "8", "2", "9">>
\* line 121
BlankBlock ==
    <<"0", "0", "0", "0", "0", "0", "0", "0", "0", "0", "0", "0", "0", "0", "0", "0",
      "0", "0", "0", "0", "0", "0", "0", "0", "0", "0", "0", "0", "0", "0", "0", "0">>
\* line 124
OpenTrailer ==
    <<"F", "F", "F", "F", "F", "F", "F", "F", "F", "F", "F", "F", "F", "F", "0", "7",
      "8", "0", "6", "9", "F", "F", "F", "F", "F", "F", "F", "F", "F", "F", "F", "F">>
\* Line 39: hex(ord(c))[2:].zfill(2).upper() for the characters of a date,
\* "BB" and a suffix: decimal digits and "B".
Ord(c) == IF c = "B" THEN 66 ELSE 48 + DigitValue(c)
HexOfOrd(c) == <<HexDigits[(Ord(c) \div 16) + 1], HexDigits[(Ord(c) % 16) + 1]>>
RECURSIVE JoinHex(_)
JoinHex(str_data) ==
    IF str_data = <<>> THEN <<>>
    ELSE HexOfOrd(Head(str_data)) \o JoinHex(Tail(str_data))
\* Lines 26-39
generate_sector2_block3(date, suffix) == JoinHex(date \o <<"B", "B">> \o suffix)

\* Line 118: sector_start = sector * 64
MutSectorStart(sector) == (sector + 1) * SectorBytes
SectorStart(sector) == sector * SectorBytes

\* Lines 99-114: the calls of write_hex_to_pos for sectors 0-2, in order.
FirstWrites(block1, block2, block3) ==
    <<[hex |-> Sector0Block0, pos |-> 0],
      [hex |-> block1, pos |-> 16],
      [hex |-> block2, pos |-> 32],
      [hex |-> Sector0Trailer, pos |-> 48],
      [hex |-> Sector1Block0, pos |-> 64],
      [hex |-> DataBlock, pos |-> 80],
      [hex |-> DataBlock, pos |-> 96],
      [hex |-> Sector1Trailer, pos |-> 112],
      [hex |-> DataBlock, pos |-> 128],
      [hex |-> DataBlock, pos |-> 144],
      [hex |-> block3, pos |-> 160],
      [hex |-> Sector2Trailer, pos |-> 176]>>

\* Lines 117-125: the call number n (from 0) of the loop over sectors 3-15,
\* which makes four calls per sector: blocks 0-2 and the trailer.
SectorWrite(n) ==
    LET sector == 3 + (n \div 4)
        block == n % 4
    IN  IF block < 3
          THEN [hex |-> BlankBlock, pos |-> SectorStart(sector) + block * 16]
          ELSE [hex |-> OpenTrailer, pos |-> SectorStart(sector) + 48]

\* The calls of write_hex_to_pos that generate_binary_mfd makes: 12 for
\* sectors 0-2 and 4 for each of the 13 sectors 3-15.
CallsOfGenerate == 12 + 4 * 13
NextWrite(n, block1, block2, block3) ==
    IF n < 12 THEN FirstWrites(block1, block2, block3)[n + 1]
              ELSE SectorWrite(n - 12)

\* ---- the inputs the two functions are applied to
Rep(c, n) == [j \in 1..n |-> c]
With(s, p, c) == [s EXCEPT ![p] = c]
\* Strings of 32 hex digits.
ValidBlocks ==
    {Sector0Block0, DataBlock, OpenTrailer, BlankBlock, Rep("F", 32),
     With(Rep("F", 32), 1, "a"), With(Rep("7", 32), 32, "c")}
\* Strings of another length.
WrongLengths == {Rep("A", n) : n \in {0, 31, 33, 64}}
\* Strings of 32 characters with one character that is no hex digit, or
\* with the first pair made of a sign and a zero.
OddChars == {"Z", "x", "_", "+", "-", " "}
OddBlocks ==
    {With(Rep("F", 32), p, c) : p \in {1, 2, 15, 16, 31, 32}, c \in OddChars}
    \cup {With(With(Rep("F", 32), 1, c), 2, "0") : c \in {"+", "-"}}
HexInputs == ValidBlocks \cup WrongLengths \cup OddBlocks
Positions == {0, 16, BufferSize - BlockBytes}
\* What generate_random_block_data may give (lines 48-62).
RandomBlocks == {Rep("0", 32), With(Rep("9", 32), 2, "E")}
\* strftime('%Y%m%d') and generate_random_suffix (lines 34 and 46).
Dates == {<<"2", "0", "2", "6", "1", "1", "0", "4">>}
Suffixes == {<<"1", "0", "0", "0", "0", "0">>, <<"9", "9", "9", "9", "9", "9">>}
Optional(S) == {<<>>} \cup {<<s>> : s \in S}

\* A call of write_hex_to_pos on a fresh buffer, or of generate_binary_mfd.
ImgInit ==
    /\ tag = NoUID
    /\ proc = "none"
    /\ disk = {}
    /\ temp_dir = TRUE
    /\ processed_uids = <<>>
    /\ generated_files = <<>>
    /\ nfc_process = "None"
    /\ nfc_thread = "None"
    /\ is_running = FALSE
    /\ current_uid = NoUID
    /\ age = AgeCap
    /\ tpc = "none"
    /\ tuid = NoUID
    /\ pc = "none"
    /\ i = 0
    /\ count = 1
    /\ timeout = 1
    /\ keep_files = FALSE
    /\ cur = NoUID
    /\ elapsed = 0
    /\ quid = NoUID
    /\ stop_ret = "none"
    /\ attempt = 0
    /\ wres = FALSE
    /\ ready = "unknown"
    /\ obs = NoUID
    /\ polls = 0
    /\ warned = FALSE
    /\ dups = 0
    /\ written = {}
    /\ wtf_elapsed = 0
    /\ lastOut = NoOutput
    /\ failed = 0
    /\ outcome = "none"
    /\ entered = 0
    /\ bg_newer = "none"
    /\ orphans = 0
    /\ raised = FALSE
    /\ nwrites = 0
    /\ \/ /\ ipc = "write_hex_to_pos"
          /\ buffer = bytearray
          /\ hex_str \in HexInputs
          /\ position \in Positions
          /\ sector0_block1 = <<>>
          /\ sector0_block2 = <<>>
          /\ sector2_block3 = <<>>
       \/ /\ ipc = "generate_binary_mfd"
          /\ buffer = <<>>
          /\ hex_str = <<>>
          /\ position = 0
          /\ sector0_block1 \in Optional(ValidBlocks)
          /\ sector0_block2 \in Optional({DataBlock, Rep("F", 32), Rep("A", 31)})
          /\ sector2_block3 \in Optional({Rep("F", 32)})

ProgramIdle == UNCHANGED <<envVars, ctlVars, clkVars, thrVars, mainVars,
                           histVars, auxVars>>

\* Lines 64-75: the call write_hex_to_pos(buffer, hex_str, position).
WriteHexToPos ==
    /\ ipc = "write_hex_to_pos"
    /\ LET r == write_hex_to_pos(buffer, hex_str, position) IN
         /\ buffer' = r.buffer
         /\ raised' = r.raised
    /\ ipc' = "write_returned"
    /\ UNCHANGED <<hex_str, position, sector0_block1, sector0_block2,
                   sector2_block3, nwrites>>
    /\ ProgramIdle

\* Lines 88-96 of generate_binary_mfd: the buffer is created and an omitted
\* block is generated.
GenerateArgs ==
    /\ ipc = "generate_binary_mfd"
    /\ buffer' = bytearray
    /\ \E r1, r2 \in RandomBlocks, date \in Dates, suffix \in Suffixes :
         /\ sector0_block1' =
               IF sector0_block1 = <<>> THEN <<r1>> ELSE sector0_block1
         /\ sector0_block2' =
               IF sector0_block2 = <<>> THEN <<r2>> ELSE sector0_block2
         /\ sector2_block3' =
               IF sector2_block3 = <<>>
                 THEN <<generate_sector2_block3(date, suffix)>>
                 ELSE sector2_block3
    /\ ipc' = "generate_writes"
    /\ UNCHANGED <<hex_str, position, nwrites, raised>>
    /\ ProgramIdle

\* Lines 99-127: the next call of write_hex_to_pos in generate_binary_mfd.
\* Its exception leaves generate_binary_mfd; after the last call the
\* function returns bytes(buffer).
GenerateWrite ==
    /\ ipc = "generate_writes"
    /\ LET w == NextWrite(nwrites, sector0_block1[1], sector0_block2[1],
                          sector2_block3[1])
           r == write_hex_to_pos(buffer, w.hex, w.pos)
       IN  /\ buffer' = r.buffer
           /\ raised' = r.raised
           /\ ipc' = IF r.raised \/ nwrites + 1 = CallsOfGenerate
                       THEN "generate_returned" ELSE "generate_writes"
    /\ nwrites' = nwrites + 1
    /\ UNCHANGED <<hex_str, position, sector0_block1, sector0_block2,
                   sector2_block3>>
    /\ ProgramIdle

ImgNext == WriteHexToPos \/ GenerateArgs \/ GenerateWrite

ImgSpec == ImgInit /\ [][ImgNext]_vars

\* =================================================================== claims
NoDuplicates(list) ==
    \A j, k \in 1..Len(list) : list[j] = list[k] => j = k
Processed(uid) == InList(uid, processed_uids)

\* C1: wait_for_new_tag returns a non-empty UID exactly when the poll it
\* returns on observed that UID and the UID is non-empty and not in the
\* processed list; it returns on the first such poll (every poll it did not
\* return on observed the empty UID or a processed one), and a poll that
\* observed a processed UID logged the duplicate warning and did not return.
C1_WaitReturnsFirstNewUid ==
    /\ (pc = "after_wait" /\ cur # NoUID)
          => (polls > 0 /\ cur = obs /\ ~Processed(cur))
    /\ (pc = "after_wait" /\ cur = NoUID /\ polls > 0)
          => (obs = NoUID \/ Processed(obs))
    /\ (InWait /\ polls > 0) => (obs = NoUID \/ Processed(obs))
    /\ ((InWait \/ pc = "after_wait") /\ polls > 0)
          => (warned <=> (obs # NoUID /\ Processed(obs)))
    /\ (InWait /\ warned) => cur = NoUID

\* A call that warned about a processed tag and then returned a new one.
C1_Witness ==
    pc = "after_wait" /\ cur # NoUID /\ dups > 0 /\ polls > 1

\* C2 (as stated): no UID is the target of a second write invocation.
C2_EachTagWrittenOnce ==
    [][(pc = "after_wait" /\ pc' = "wtf_attempt") => cur \notin written]_vars

\* C2 (amended): write_tag_from_file is only ever invoked for a UID that is
\* not in processed_uids, that is for a tag whose write has not succeeded;
\* a tag whose write failed may be written again.
C2_NoWriteToProcessedTag ==
    pc \in {"wtf_attempt", "after_write"} => (cur # NoUID /\ ~Processed(cur))

\* A write is under way while another tag is already processed.
C2_Witness ==
    pc = "wtf_attempt" /\ attempt > 0 /\ processed_uids # <<>>

\* C3: processed_uids only grows, and only by the step that follows a write
\* that returned True and whose output file was finalized; no other step (a
\* timeout, a failed image generation, a failed write) changes it.
C3_ProcessedGrowsOnlyOnSuccess ==
    [][\/ processed_uids' = processed_uids
       \/ /\ pc = "after_write" /\ wres
          /\ processed_uids' = Append(processed_uids, cur)
          /\ (i + 1) \in disk'
          /\ generated_files' = Append(generated_files, i + 1)
          /\ outcome' = "ok"]_vars

\* One tag was processed and the write of the next one failed.
C3_Witness ==
    Len(processed_uids) = 1 /\ outcome = "writefail" /\ i = 1
       /\ pc = "cleanup_temp"

\* C4: a UID in processed_uids is reported as already processed by every
\* later poll (the duplicate warning, never a return), and processed_uids
\* holds no UID twice.
C4_ProcessedStaysProcessed ==
    /\ NoDuplicates(processed_uids)
    /\ \A u \in UIDs :
          (Processed(u) /\ polls > 0 /\ obs = u /\ (InWait \/ pc = "after_wait"))
             => (warned /\ cur # u)

\* A processed tag was polled again.
C4_Witness ==
    pc = "wait_cond" /\ warned /\ Processed(obs) /\ Len(processed_uids) = 1
\* C5: wait_for_new_tag returns the empty string only once the time since
\* its start has reached the timeout, never while it is still below; a poll
\* that observed the empty UID never makes it return a UID; and the call
\* does return (the main thread being scheduled).
C5_EmptyReturnOnlyAtTimeout ==
    /\ []((pc = "after_wait" /\ cur = NoUID) => elapsed >= timeout)
    /\ []((pc = "after_wait" /\ polls > 0 /\ obs = NoUID) => cur = NoUID)
    /\ [](pc = "wait_cond" => <>(pc = "after_wait"))

\* Every poll of the call observed the empty UID and it returned empty.
C5_Witness ==
    pc = "after_wait" /\ cur = NoUID /\ polls = timeout /\ dups = 0
       /\ obs = NoUID /\ current_uid = NoUID

\* C6: a poll that observes a processed UID logs the duplicate warning and
\* goes on polling; the step changes neither the processed list nor the
\* start of the timeout (the elapsed time only grows by the sleep), and at
\* the loop condition the call returns empty as soon as the timeout counted
\* from its start has elapsed, whatever it has warned about.
C6_WarningKeepsTimeoutClock ==
    [][/\ (pc = "gcu_ret" /\ pc' = "wait_cond")
            => /\ elapsed' = elapsed + PollTicks
               /\ processed_uids' = processed_uids
               /\ (Processed(current_uid) => (warned' /\ dups' = dups + 1))
       /\ (pc = "wait_cond" /\ pc' # pc /\ elapsed >= timeout)
            => (pc' = "after_wait" /\ cur' = NoUID)
       /\ (pc = "wait_cond" /\ pc' = "gcu_check") => elapsed < timeout]_vars

\* A call that warned about a processed tag and then timed out.
C6_Witness ==
    pc = "after_wait" /\ cur = NoUID /\ dups > 0 /\ elapsed = timeout

C8_FailuresNeverAbortBatch ==
    (pc = "done" /\ ready = "yes") => entered = count

C10_NoLoopWithoutReader ==
    ready = "no"
       => /\ pc \in {"finally", "stop_proc", "stop_join", "cleanup", "done"}
          /\ entered = 0
          /\ polls = 0
          /\ written = {}
          /\ processed_uids = <<>>

\* The process was started, the reader check failed, and main has returned.
C10_Witness ==
    pc = "done" /\ ready = "no" /\ proc = "exited"

\* C11: when stop_nfc_monitor has returned, the reader process is not running
\* and no monitor thread of the controller is alive any more (so that none
\* can read or write current_uid, last_update_time or is_running afterwards).
C11_StopQuiescesMonitor ==
    (pc = "call_ret" /\ outcome \in {"stopped", "stopped_again"})
        => (proc # "running" /\ LiveThreads = 0)

CallerStep == InWait /\ pc' # pc
\* last_update_time is not assigned: its age only advances with the clock.
TimeNotWritten == age' = Aged(age, elapsed' - elapsed)

\* C13 (as stated): the monitor state is only read by callers: no step of
\* the calling thread inside get_current_uid or wait_for_new_tag writes
\* current_uid or last_update_time.
C13_CallersOnlyRead ==
    [][CallerStep => (current_uid' = current_uid /\ TimeNotWritten)]_vars

\* C13 (amended): inside wait_for_new_tag and get_current_uid the calling
\* thread never writes is_running, and it writes current_uid and
\* last_update_time only in the two assignments of the re-query branch of
\* get_current_uid (lines 293-294), storing a non-empty UID and the time of
\* the call; every other step of the caller leaves the monitor state alone.
C13_CallersWriteOnlyInRequery ==
    [][CallerStep =>
         /\ is_running' = is_running
         /\ current_uid' # current_uid
              => (pc = "gcu_set_uid" /\ current_uid' \in UIDs)
         /\ ~TimeNotWritten => (pc = "gcu_set_time" /\ age' = 0) ]_vars
\* The caller has just stored the UID of its re-query over a different one.
C13_Witness ==
    pc = "gcu_set_time" /\ current_uid \in UIDs /\ obs # current_uid
    /\ age = AgeCap /\ polls > 0

\* C14: an update derived from an older reader observation never overwrites
\* a newer one: the calling thread never stores the result of its re-query
\* in current_uid after the background thread has stored there a line that
\* it read after that re-query was made, so that the UID the caller gets
\* is never changed from the newer observation to the older one.
C14_OlderNeverOverwritesNewer ==
    [][(pc = "gcu_set_uid" /\ pc' = "gcu_set_time" /\ bg_newer = "stored")
          => current_uid' = current_uid]_vars

\* C15: start_nfc_monitor raises both when the process cannot be spawned
\* and when the spawned process exits at once, so a start that returned
\* without error has a running reader process; and after a start that
\* raised the monitor is stopped (no process handle, is_running false, no
\* thread handle).
C15_StartFailsOnDeadProcess ==
    /\ (pc = "call_ret" /\ outcome = "started") => proc = "running"
    /\ (pc = "call_ret" /\ outcome = "start_raised")
          => (nfc_process = "None" /\ ~is_running /\ nfc_thread = "None")

\* The byte that two hex digits of a block stand for.
ByteAt(s, k) == 16 * DigitValue(s[2 * k + 1]) + DigitValue(s[2 * k + 2])
\* The fixed template: the constant blocks of sectors 0-2 by block number
\* (<<>> at the three variable blocks), then per sector three zero blocks
\* and the open trailer.
TemplateBlocks ==
    <<Sector0Block0, <<>>, <<>>, Sector0Trailer,
      Sector1Block0, DataBlock, DataBlock, Sector1Trailer,
      DataBlock, DataBlock, <<>>, Sector2Trailer>>
VariableBytes == (16..47) \cup (160..175)
TemplateByte(k) ==
    IF k < 192 THEN ByteAt(TemplateBlocks[(k \div 16) + 1], k % 16)
    ELSE IF k % 64 < 48 THEN 0
    ELSE ByteAt(OpenTrailer, k % 16)

\* C16: whatever variable blocks are supplied (as 32 hex digits) or omitted,
\* generate_binary_mfd returns without error exactly 1024 bytes; every byte
\* outside [16:48) and [160:176) is that of the fixed template, and the
\* three variable ranges hold the bytes of the three variable blocks.
C16_ImageIsTemplatePlusVariableBlocks ==
    (/\ ipc = "generate_returned"
     /\ \A b \in {sector0_block1, sector0_block2, sector2_block3} :
           Len(b[1]) = 32 /\ \A j \in 1..32 : IsHexDigit(b[1][j])) =>
        /\ ~raised
        /\ DOMAIN buffer = 0..1023
        /\ \A k \in (0..1023) \ VariableBytes : buffer[k] = TemplateByte(k)
        /\ \A k \in 0..15 :
             /\ buffer[16 + k] = ByteAt(sector0_block1[1], k)
             /\ buffer[32 + k] = ByteAt(sector0_block2[1], k)
             /\ buffer[160 + k] = ByteAt(sector2_block3[1], k)
\* An image was generated from a supplied block 1 and a generated block 3.
C16_Witness ==
    /\ ipc = "generate_returned"
    /\ sector0_block1 = <<OpenTrailer>>
    /\ sector2_block3 = <<generate_sector2_block3(
                             <<"2", "0", "2", "6", "1", "1", "0", "4">>,
                             <<"9", "9", "9", "9", "9", "9">>)>>
    /\ buffer[160] = 50 /\ buffer[168] = 66 /\ buffer[175] = 57
    /\ buffer[1023] = 255 /\ buffer[22] = 255 /\ buffer[23] = 7

\* Exactly 32 hexadecimal characters.
IsHex32(s) == Len(s) = 32 /\ \A j \in 1..32 : IsHexDigit(s[j])

\* C17: write_hex_to_pos raises for every string that is not exactly 32 hex
\* characters, and a call that raised has left the buffer as it was before
\* the call (here the fresh bytearray(1024)).
C17_BadBlockRaisesAndKeepsBuffer ==
    ipc = "write_returned" =>
        /\ ~IsHex32(hex_str) => raised
        /\ raised => buffer = bytearray

\* C18: after any sequence of start_nfc_monitor and stop_nfc_monitor calls
\* at most one monitor thread of the controller is alive, and a
\* start_nfc_monitor called while a process handle is held starts neither a
\* process nor a thread.
C18_AtMostOneMonitor ==
    [][ /\ LiveThreads' <= 1
        /\ (pc = "idle" /\ pc' = "call_ret" /\ nfc_process # "None")
              => UNCHANGED <<proc, nfc_process, nfc_thread, tpc, orphans>>
      ]_vars

\* C19: get_current_uid makes its re-query only when the last update is
\* older than the update interval, and writes the monitor state only after
\* a re-query that reported the UID of a tag; in every other case the
\* caller changes neither current_uid nor last_update_time.  The value
\* returned is the stored current_uid.  The caller never replaces a UID by
\* the empty UID: only the background thread does, for a "No NFC device
\* found" line.
C19_RequeryOnlyWhenStaleNeverClears ==
    [][ /\ pc' = "gcu_query" /\ pc # pc'
            => (pc = "gcu_check" /\ age > UpdateInterval)
        /\ pc' = "gcu_set_uid" /\ pc # pc'
            => (pc = "gcu_query" /\ tag \in UIDs /\ quid' = tag)
        /\ (CallerStep /\ (current_uid' # current_uid \/ ~TimeNotWritten))
            => pc \in {"gcu_set_uid", "gcu_set_time"}
        /\ (pc = "gcu_set_uid" /\ pc' # pc) => current_uid' = quid
        /\ (pc = "gcu_ret" /\ pc' # pc) => obs' = current_uid
        /\ (CallerStep /\ current_uid # NoUID) => current_uid' # NoUID
        /\ (current_uid # NoUID /\ current_uid' = NoUID)
            => (tpc = "set_uid" /\ tuid = NoUID /\ tpc' = "set_time")
      ]_vars
\* A stale state was re-queried with no tag on the reader, and the UID of
\* the removed tag is still stored when get_current_uid returns.
C19_Witness ==
    /\ pc = "gcu_ret" /\ polls > 0
    /\ age = AgeCap
    /\ tag = NoUID
    /\ current_uid \in UIDs

\* The iterations whose write_tag_from_file returned True: each of them
\* either appended its UID to processed_uids (line 430) or was left by the
\* exception of os.rename (line 428), which ends the loop.
WritesSucceeded ==
    Len(processed_uids) + (IF outcome = "renamefail" THEN 1 ELSE 0)

\* C20: with a ready reader main returns after exactly count iterations,
\* none of them repeated, and processed_uids then holds at most count UIDs,
\* as many as there were iterations whose write succeeded.
C20_ExactlyCountIterations ==
    (pc = "done" /\ ready = "yes")
        => /\ i = count
           /\ entered = count
           /\ Len(processed_uids) <= count
           /\ Len(processed_uids) = WritesSucceeded

====
